---- MODULE Spec2Model ----
(***************************************************************************)
(* Model of ntc_crawler/spiders/sitemap.py: the SitemapSpider callbacks    *)
(* parse / closed / build_tree, driven by the Scrapy engine that the       *)
(* spider class configures (start_urls, custom_settings, response.follow). *)
(*                                                                         *)
(* The web site being crawled is the environment.  It is static: the page  *)
(* served for a URL is chosen the first time the URL is downloaded and is  *)
(* served again on every later download of the same URL.                   *)
(***************************************************************************)
EXTENDS Integers, Sequences, FiniteSets, TLC

(***************************************************************************)
(* Bounds of the model and constants of the program                        *)
(***************************************************************************)
\* custom_settings["DEPTH_LIMIT"], scaled down from 3
DepthLimit == 2
\* custom_settings["CLOSESPIDER_PAGECOUNT"], scaled down from 200
PageCount == 3
\* number of requests the downloader holds at once (CONCURRENT_REQUESTS)
MaxInFlight == 2
\* interpreter recursion limit (sys.getrecursionlimit()), scaled down
RecursionLimit == 6

(***************************************************************************)
(* URLs.  A URL is named by an identifier and spelled by UrlText, so that  *)
(* the string tests of the code (startswith, lower, endswith) are computed *)
(* on characters.                                                          *)
(***************************************************************************)
None == "None"

\* start_urls[0]
Seed == "S"

\* the URLs that can be requested
Urls == {"S", "P1", "P2", "C1", "Doc", "Pic"}

\* the hrefs a page can carry: the URLs and one mailto: link
Hrefs == Urls \cup {"Mail"}

UrlText(u) ==
    CASE u = "S"    -> <<"/">>
      [] u = "P1"   -> <<"/", "a">>
      [] u = "P2"   -> <<"/", "b">>
      [] u = "C1"   -> <<"/", "c">>
      [] u = "Doc"  -> <<"/", "d", ".", "P", "D", "F">>
      [] u = "Pic"  -> <<"/", "e", ".", "j", "p", "g">>
      [] u = "Mail" -> <<"m", "a", "i", "l", "t", "o", ":", "x">>

UpperChars ==
    <<"A", "B", "C", "D", "E", "F", "G", "H", "I", "J", "K", "L", "M",
      "N", "O", "P", "Q", "R", "S", "T", "U", "V", "W", "X", "Y", "Z">>

LowerChars ==
    <<"a", "b", "c", "d", "e", "f", "g", "h", "i", "j", "k", "l", "m",
      "n", "o", "p", "q", "r", "s", "t", "u", "v", "w", "x", "y", "z">>

\* str.lower() on one character
LowerChar(c) ==
    IF \E i \in 1..Len(UpperChars) : UpperChars[i] = c
    THEN LowerChars[CHOOSE i \in 1..Len(UpperChars) : UpperChars[i] = c]
    ELSE c

\* str.lower()
Lower(s) == [i \in 1..Len(s) |-> LowerChar(s[i])]

\* str.startswith(p)
StartsWith(s, p) ==
    /\ Len(p) <= Len(s)
    /\ SubSeq(s, 1, Len(p)) = p

\* str.endswith(p)
EndsWith(s, p) ==
    /\ Len(p) <= Len(s)
    /\ SubSeq(s, Len(s) - Len(p) + 1, Len(s)) = p

Range(s) == {s[i] : i \in 1..Len(s)}

\* skip_extensions of should_follow
skip_extensions ==
    { <<".", "p", "d", "f">>, <<".", "m", "p", "4">>, <<".", "m", "p", "3">>,
      <<".", "z", "i", "p">>, <<".", "d", "o", "c">>,
      <<".", "d", "o", "c", "x">>, <<".", "x", "l", "s">>,
      <<".", "x", "l", "s", "x">>, <<".", "p", "p", "t">>,
      <<".", "p", "p", "t", "x">>, <<".", "j", "p", "g">>,
      <<".", "p", "n", "g">>, <<".", "g", "i", "f">>,
      <<".", "j", "p", "e", "g">>, <<".", "a", "v", "i">>,
      <<".", "m", "o", "v">>, <<".", "w", "m", "v">> }

\* a should_follow that compares the extension without lower-casing the URL
should_follow_case_sensitive(url) ==
    ~ \E ext \in skip_extensions : EndsWith(UrlText(url), ext)

\* SitemapSpider.should_follow
should_follow(url) ==
    ~ \E ext \in skip_extensions : EndsWith(Lower(UrlText(url)), ext)

\* the href prefixes parse leaves out of child_urls
skip_prefixes ==
    { <<"m", "a", "i", "l", "t", "o", ":">>, <<"t", "e", "l", ":">>,
      <<"j", "a", "v", "a", "s", "c", "r", "i", "p", "t", ":">>, <<"#">> }

(***************************************************************************)
(* The site: what a download of a URL returns                              *)
(***************************************************************************)
\* the <a href> lists a page of the site can carry, in page order: no link,
\* links to one or two pages, links back to the seed, a repeated link, links
\* to a document and to an image, and a page with a mailto: link
LinkSeqs ==
    { <<>>,
      <<"P1", "P2">>, <<"S", "C1">>,
      <<"S">>, <<"P1">>, <<"P2">>, <<"C1">>,
      <<"P2", "P1">>, <<"P1", "C1">>, <<"C1", "S">>,
      <<"P2", "P2">>, <<"Doc">>, <<"Pic", "C1">>,
      <<"Mail", "Doc", "P1">> }

Unknown == [kind |-> "unknown", status |-> 0, content_type |-> "", hrefs |-> <<>>]

\* a 200 response with an HTML body and its <a href> values in page order
HtmlPages ==
    { [kind |-> "response", status |-> 200, content_type |-> "text/html", hrefs |-> h] :
        h \in LinkSeqs }

\* the text of the page's <title>
PageTitle(url) == UrlText(url)

\* a 200 response that is not HTML, a 404 response, and a download that fails
OtherPages ==
    { [kind |-> "response", status |-> 200, content_type |-> "application/pdf", hrefs |-> <<>>],
      [kind |-> "response", status |-> 404, content_type |-> "text/html", hrefs |-> <<>>],
      [kind |-> "failure", status |-> 0, content_type |-> "", hrefs |-> <<>>] }

Pages == HtmlPages \cup OtherPages

VARIABLES
    site,           \* environment: URL -> the page it serves, Unknown until downloaded
    sitemap_data,   \* self.sitemap_data: URL -> node
    parent_map,     \* self.parent_map: URL -> sequence of child URLs
    pending,        \* the scheduler's queue of requests
    seen,           \* the scheduler's duplicate filter
    inflight,       \* requests handed to the downloader
    pagecount,      \* responses counted for CLOSESPIDER_PAGECOUNT
    closing,        \* the engine has been told to close the spider
    visits,         \* URL -> number of times parse was called for a response of that URL
    pc,             \* "crawling", then "closed" once closed() has run
    tree,           \* the result of build_tree(start_urls[0]) in closed()
    node_files,     \* node_id -> the URLs whose node was written to node_<id>.json, in order
    flat            \* what closed() wrote to sitemap_flat.json, if it got that far

vars == <<site, sitemap_data, parent_map, pending, seen, inflight, pagecount,
          closing, visits, pc, tree, node_files, flat>>

(***************************************************************************)
(* SitemapSpider.parse                                                     *)
(***************************************************************************)
\* a response as parse sees it: response.url, .status, the Content-Type
\* header, the href attributes of its <a> elements, and response.meta
Response(r, page) ==
    [url |-> r.url, status |-> page.status, content_type |-> page.content_type,
     hrefs |-> page.hrefs, parent_url |-> r.parent_url, depth |-> r.depth]

\* lines 47-51: the hrefs kept as child_urls (hrefs of the site are absolute,
\* so response.urljoin returns them unchanged)
ChildUrls(hrefs) ==
    SelectSeq(hrefs, LAMBDA h : ~ \E p \in skip_prefixes : StartsWith(UrlText(h), p))

\* a node that records the page's own URL as its parent
Node_parent_is_own_url(response) ==
    [url |-> response.url,
     title |-> PageTitle(response.url),
     status |-> response.status,
     depth |-> response.depth,
     parent |-> response.url,
     child_urls |-> ChildUrls(response.hrefs)]

\* lines 54-61
Node(response) ==
    [url |-> response.url,
     title |-> PageTitle(response.url),
     status |-> response.status,
     depth |-> response.depth,
     parent |-> response.parent_url,
     child_urls |-> ChildUrls(response.hrefs)]

\* dict assignment d[k] = v
Put(d, k, v) == [x \in DOMAIN d \cup {k} |-> IF x = k THEN v ELSE d[x]]

\* defaultdict(list): d[k].append(v)
AppendTo(d, k, v) ==
    [x \in DOMAIN d \cup {k} |->
        IF x = k THEN Append(IF k \in DOMAIN d THEN d[k] ELSE <<>>, v) ELSE d[x]]

\* lines 77-83: the requests parse yields, in order
Follows(response) ==
    LET links == SelectSeq(ChildUrls(response.hrefs), should_follow)
    IN  [i \in 1..Len(links) |-> [url |-> links[i], parent_url |-> response.url]]

\* a parse that records a node for a response that is not HTML
parse_stores_non_html(response) ==
    LET stored == Put(sitemap_data, response.url, Node(response))
    IN  [sitemap_data |-> stored,
         parent_map   |-> IF response.parent_url # None /\ response.parent_url \in DOMAIN stored
                          THEN AppendTo(parent_map, response.parent_url, response.url)
                          ELSE parent_map,
         stored       |-> TRUE,
         node_id      |-> Cardinality(DOMAIN stored),
         requests     |-> IF response.content_type # "text/html" THEN <<>>
                          ELSE Follows(response)]

\* a parse that looks the parent up in parent_map instead of sitemap_data
\* before recording the edge
parse_checks_parent_map(response) ==
    IF response.content_type # "text/html"
    THEN [sitemap_data |-> sitemap_data, parent_map |-> parent_map,
          stored |-> FALSE, node_id |-> 0, requests |-> <<>>]
    ELSE [sitemap_data |-> Put(sitemap_data, response.url, Node(response)),
          parent_map   |-> IF response.parent_url # None /\ response.parent_url \in DOMAIN parent_map
                           THEN AppendTo(parent_map, response.parent_url, response.url)
                           ELSE parent_map,
          stored       |-> TRUE,
          node_id      |-> Cardinality(DOMAIN sitemap_data \cup {response.url}),
          requests     |-> Follows(response)]

\* SitemapSpider.parse: the new sitemap_data and parent_map, whether a node
\* was stored, the node_id of its file (len(self.sitemap_data) after the
\* store), and the requests yielded
parse(response) ==
    IF response.content_type # "text/html"
    THEN [sitemap_data |-> sitemap_data, parent_map |-> parent_map,
          stored |-> FALSE, node_id |-> 0, requests |-> <<>>]
    ELSE LET stored == Put(sitemap_data, response.url, Node(response))
         IN  [sitemap_data |-> stored,
              parent_map   |-> IF response.parent_url # None /\ response.parent_url \in DOMAIN stored
                               THEN AppendTo(parent_map, response.parent_url, response.url)
                               ELSE parent_map,
              stored       |-> TRUE,
              node_id      |-> Cardinality(DOMAIN stored),
              requests     |-> Follows(response)]

(***************************************************************************)
(* SitemapSpider.build_tree                                                *)
(***************************************************************************)
NoneTree == [tag |-> "None"]

\* the recursion ran past the interpreter's limit: RecursionError is raised
RecursionError == [tag |-> "RecursionError"]

Unbuilt == [tag |-> "unbuilt"]

\* self.parent_map.get(url, [])
ParentMapGet(url) == IF url \in DOMAIN parent_map THEN parent_map[url] ELSE <<>>

\* the sequence s back to front
Reverse(s) == [i \in 1..Len(s) |-> s[Len(s) + 1 - i]]

\* a build_tree that puts each child in front of the children built so far
RECURSIVE build_tree_prepends(_, _)
build_tree_prepends(url, frames) ==
    IF frames >= RecursionLimit THEN RecursionError
    ELSE IF url \notin DOMAIN sitemap_data THEN NoneTree
    ELSE LET node == sitemap_data[url]
             kids == ParentMapGet(url)
             built == [i \in 1..Len(kids) |-> build_tree_prepends(kids[i], frames + 1)]
         IN  IF \E i \in 1..Len(kids) : built[i].tag = "RecursionError"
             THEN RecursionError
             ELSE [tag |-> "node", url |-> node.url, title |-> node.title,
                   status |-> node.status, depth |-> node.depth,
                   parent |-> node.parent,
                   children |-> Reverse(SelectSeq(built, LAMBDA t : t.tag # "None"))]

\* a build_tree that returns None for a node without children
RECURSIVE build_tree_none_for_leaf(_, _)
build_tree_none_for_leaf(url, frames) ==
    IF frames >= RecursionLimit THEN RecursionError
    ELSE IF url \notin DOMAIN sitemap_data THEN NoneTree
    ELSE LET node == sitemap_data[url]
             kids == ParentMapGet(url)
             built == [i \in 1..Len(kids) |-> build_tree_none_for_leaf(kids[i], frames + 1)]
             children == SelectSeq(built, LAMBDA t : t.tag # "None")
         IN  IF \E i \in 1..Len(kids) : built[i].tag = "RecursionError"
             THEN RecursionError
             ELSE IF children = <<>> THEN NoneTree
             ELSE [tag |-> "node", url |-> node.url, title |-> node.title,
                   status |-> node.status, depth |-> node.depth,
                   parent |-> node.parent,
                   children |-> children]

\* build_tree(url), called with `frames` frames of build_tree on the stack
RECURSIVE build_tree(_, _)
build_tree(url, frames) ==
    IF frames >= RecursionLimit THEN RecursionError
    ELSE IF url \notin DOMAIN sitemap_data THEN NoneTree
    ELSE LET node == sitemap_data[url]
             kids == ParentMapGet(url)
             built == [i \in 1..Len(kids) |-> build_tree(kids[i], frames + 1)]
         IN  IF \E i \in 1..Len(kids) : built[i].tag = "RecursionError"
             THEN RecursionError
             ELSE [tag |-> "node", url |-> node.url, title |-> node.title,
                   status |-> node.status, depth |-> node.depth,
                   parent |-> node.parent,
                   children |-> SelectSeq(built, LAMBDA t : t.tag # "None")]

\* the URLs of a built tree in pre-order, one entry per position
RECURSIVE Flatten(_)
RECURSIVE TreeUrls(_)
Flatten(trees) ==
    IF trees = <<>> THEN <<>> ELSE TreeUrls(Head(trees)) \o Flatten(Tail(trees))
TreeUrls(t) ==
    IF t.tag # "node" THEN <<>> ELSE <<t.url>> \o Flatten(t.children)

\* the URLs build_tree(url) makes a tree node for
BuiltUrls(url) ==
    IF url \notin DOMAIN sitemap_data THEN {}
    ELSE {url} \cup {u \in DOMAIN sitemap_data :
                      \E i \in 1..Len(TreeUrls(build_tree(url, 0))) :
                          TreeUrls(build_tree(url, 0))[i] = u}

\* a build_tree that works on the stored dict itself (no .copy()): the stored
\* nodes it visits get a children entry and lose child_urls
sitemap_data_after_build_tree_no_copy(url) ==
    [u \in DOMAIN sitemap_data |->
        IF u \in BuiltUrls(url)
        THEN [url |-> sitemap_data[u].url, title |-> sitemap_data[u].title,
              status |-> sitemap_data[u].status, depth |-> sitemap_data[u].depth,
              parent |-> sitemap_data[u].parent, children |-> ParentMapGet(u)]
        ELSE sitemap_data[u]]

\* self.sitemap_data once build_tree(url) has run: line 117 takes a copy of
\* the stored dict, and lines 127-128 set children and delete child_urls on
\* that copy, so every stored dict is as it was
sitemap_data_after_build_tree(url) == sitemap_data

\* self.parent_map once build_tree(url) has run: line 121 reads it with
\* .get(url, []), which adds no key to the defaultdict
parent_map_after_build_tree(url) == parent_map

\* list(self.sitemap_data.values()), lines 97-99
FlatList(data) == [written |-> TRUE, nodes |-> {data[u] : u \in DOMAIN data}]

NotWritten == [written |-> FALSE, nodes |-> {}]

(***************************************************************************)
(* The Scrapy engine the spider runs under                                 *)
(***************************************************************************)
\* the start request: Request(start_urls[0], dont_filter=True), depth 0
StartRequest == [url |-> Seed, parent_url |-> None, depth |-> 0]

\* DEPTH_LIMIT: a yielded request gets the depth of its response plus one
\* and is dropped beyond the limit
DepthFilter(requests, depth) ==
    LET kept == SelectSeq(requests, LAMBDA q : depth + 1 <= DepthLimit)
    IN  [i \in 1..Len(kept) |->
            [url |-> kept[i].url, parent_url |-> kept[i].parent_url, depth |-> depth + 1]]

\* the scheduler takes the requests in order; one whose URL the duplicate
\* filter has seen is dropped, any other is remembered and queued
RECURSIVE Enqueue(_, _, _)
Enqueue(requests, filter, queue) ==
    IF requests = <<>> THEN [seen |-> filter, pending |-> queue]
    ELSE LET q == Head(requests)
         IN  IF q.url \in filter
             THEN Enqueue(Tail(requests), filter, queue)
             ELSE Enqueue(Tail(requests), filter \cup {q.url}, queue \cup {q})

\* the page a download of r.url returns: the page the site already served for
\* the URL, or any page when the URL is downloaded for the first time
Serves(r, page) ==
    /\ page \in Pages
    /\ site[r.url] \in {Unknown, page}

Init ==
    /\ site = [u \in Urls |-> Unknown]
    /\ sitemap_data = << >>
    /\ parent_map = << >>
    /\ pending = {StartRequest}
    /\ seen = {}
    /\ inflight = {}
    /\ pagecount = 0
    /\ closing = FALSE
    /\ visits = [u \in Urls |-> 0]
    /\ pc = "crawling"
    /\ tree = Unbuilt
    /\ node_files = << >>
    /\ flat = NotWritten

\* the engine moves a queued request to the downloader
NextRequest(r) ==
    /\ pc = "crawling"
    /\ ~ closing
    /\ r \in pending
    /\ Cardinality(inflight) < MaxInFlight
    /\ pending' = pending \ {r}
    /\ inflight' = inflight \cup {r}
    /\ UNCHANGED <<site, sitemap_data, parent_map, seen, pagecount, closing,
                   visits, pc, tree, node_files, flat>>

\* a download fails: there is no response and no callback
DownloadFails(r, page) ==
    /\ pc = "crawling"
    /\ r \in inflight
    /\ Serves(r, page)
    /\ page.kind = "failure"
    /\ site' = [site EXCEPT ![r.url] = page]
    /\ inflight' = inflight \ {r}
    /\ UNCHANGED <<sitemap_data, parent_map, pending, seen, pagecount, closing,
                   visits, pc, tree, node_files, flat>>

\* a response outside 200-299 is counted and then filtered out before the callback
ResponseIgnored(r, page) ==
    /\ pc = "crawling"
    /\ r \in inflight
    /\ Serves(r, page)
    /\ page.kind = "response"
    /\ ~ (page.status \in 200..299)
    /\ site' = [site EXCEPT ![r.url] = page]
    /\ inflight' = inflight \ {r}
    /\ pagecount' = pagecount + 1
    /\ closing' = (closing \/ pagecount' = PageCount)
    /\ UNCHANGED <<sitemap_data, parent_map, pending, seen, visits, pc, tree,
                   node_files, flat>>

\* a 2xx response is counted and handed to parse; what parse yields goes
\* through the depth filter to the scheduler
ResponseParsed(r, page) ==
    /\ pc = "crawling"
    /\ r \in inflight
    /\ Serves(r, page)
    /\ page.kind = "response"
    /\ page.status \in 200..299
    /\ site' = [site EXCEPT ![r.url] = page]
    /\ inflight' = inflight \ {r}
    /\ pagecount' = pagecount + 1
    /\ closing' = (closing \/ pagecount' = PageCount)
    /\ visits' = [visits EXCEPT ![r.url] = @ + 1]
    /\ LET out == parse(Response(r, page))
           sched == Enqueue(DepthFilter(out.requests, r.depth), seen, pending)
       IN  /\ sitemap_data' = out.sitemap_data
           /\ parent_map' = out.parent_map
           /\ node_files' = IF out.stored
                            THEN AppendTo(node_files, out.node_id, r.url)
                            ELSE node_files
           /\ seen' = sched.seen
           /\ pending' = sched.pending
    /\ UNCHANGED <<pc, tree, flat>>

\* what closed() does once it is called: it builds the tree from
\* start_urls[0] and, unless build_tree raised, writes the tree and then the
\* flat list
ClosedBody ==
    /\ pc' = "closed"
    /\ tree' = build_tree(Seed, 0)
    /\ sitemap_data' = sitemap_data_after_build_tree(Seed)
    /\ parent_map' = parent_map_after_build_tree(Seed)
    /\ flat' = IF tree'.tag = "RecursionError" THEN NotWritten
               ELSE FlatList(sitemap_data')
    /\ UNCHANGED <<site, pending, seen, inflight, pagecount, closing, visits,
                   node_files>>

\* a closed() that is called as soon as a close is requested, with
\* downloads still in flight
Closed_without_waiting ==
    /\ pc = "crawling"
    /\ (closing \/ (pending = {} /\ inflight = {}))
    /\ ClosedBody

\* a closed() that is called only when the queue has drained
Closed_only_when_queue_empty ==
    /\ pc = "crawling"
    /\ inflight = {}
    /\ pending = {}
    /\ ClosedBody

\* SitemapSpider.closed: runs once the engine has nothing in flight and either
\* nothing queued or a close requested
Closed ==
    /\ pc = "crawling"
    /\ inflight = {}
    /\ (pending = {} \/ closing)
    /\ ClosedBody

Next ==
    \/ \E r \in pending : NextRequest(r)
    \/ \E r \in inflight, page \in Pages : DownloadFails(r, page)
    \/ \E r \in inflight, page \in Pages : ResponseIgnored(r, page)
    \/ \E r \in inflight, page \in Pages : ResponseParsed(r, page)
    \/ Closed

Spec == Init /\ [][Next]_vars

\* the pages of the crawls checked for completion: the link graphs with a
\* leaf, a fan-out, links back to the seed and a seed linking to itself, and
\* the fetches that give no page
LivePages ==
    { p \in HtmlPages : p.hrefs \in { <<>>, <<"P1", "P2">>, <<"S", "C1">>, <<"C1", "S">>,
                                    <<"S">>, <<"P1">>, <<"P2">>, <<"C1">> } }
        \cup OtherPages

LiveNext ==
    \/ \E r \in pending : NextRequest(r)
    \/ \E r \in inflight, page \in LivePages : DownloadFails(r, page)
    \/ \E r \in inflight, page \in LivePages : ResponseIgnored(r, page)
    \/ \E r \in inflight, page \in LivePages : ResponseParsed(r, page)
    \/ Closed

\* the engine keeps taking steps while a request is queued or in flight, and
\* calls closed() when nothing is left to do
FairSpec == Init /\ [][LiveNext]_vars /\ WF_vars(LiveNext)

(***************************************************************************)
(* Helpers of the properties                                               *)
(***************************************************************************)
Stored == DOMAIN sitemap_data

\* the number of positions of s that hold x
Count(s, x) == Cardinality({i \in 1..Len(s) : s[i] = x})

\* closed() got a value back from build_tree and wrote it to sitemap_tree.json
TreeWritten == pc = "closed" /\ tree.tag \in {"node", "None"}

\* the URL ends, ignoring case, in one of the excluded extensions
EndsInExcludedExtension(u) ==
    \E ext \in skip_extensions : EndsWith(Lower(UrlText(u)), ext)

(***************************************************************************)
(* C1: for every store a crawl leaves, build_tree(seed) returns a tree     *)
(* that holds every stored URL at exactly one position.                    *)
(***************************************************************************)
C1_EveryUrlExactlyOnce ==
    pc = "closed" =>
        /\ tree.tag # "RecursionError"
        /\ \A u \in Stored : Count(TreeUrls(tree), u) = 1

(***************************************************************************)
(* C2: build_tree(rootUrl) terminates on every store reachable at crawl    *)
(* completion: it returns a tree or none, it does not recurse into a URL   *)
(* that is already placed and does not raise.                              *)
(***************************************************************************)
C2_BuildTreeTerminates ==
    pc = "closed" => tree.tag \in {"node", "None"}

(***************************************************************************)
(* C3: first writer wins: once a node is stored for a URL, no step creates *)
(* a new node for it, changes its parent or depth, or appends the URL to a *)
(* children list.                                                          *)
(***************************************************************************)
C3_FirstWriterWins ==
    [][\A u \in Stored :
          /\ u \in DOMAIN sitemap_data'
          /\ sitemap_data'[u].parent = sitemap_data[u].parent
          /\ sitemap_data'[u].depth = sitemap_data[u].depth
          /\ \A p \in DOMAIN parent_map' :
                Count(parent_map'[p], u) =
                    Count(IF p \in DOMAIN parent_map THEN parent_map[p] ELSE <<>>, u)]_vars

(***************************************************************************)
(* C4: exactly-once visit: no URL is dispatched to parse more than once.   *)
(***************************************************************************)
C4_ExactlyOnceVisit ==
    \A u \in Urls : visits[u] <= 1

(***************************************************************************)
(* C5: the number of stored nodes never exceeds CLOSESPIDER_PAGECOUNT.     *)
(***************************************************************************)
C5_AtMostPageCountNodes ==
    Cardinality(Stored) <= PageCount

(***************************************************************************)
(* C6: every stored node has depth <= DEPTH_LIMIT; the seed node has depth *)
(* 0 and no parent; every other node has a stored parent and its depth is  *)
(* the parent's depth plus one.                                            *)
(***************************************************************************)
C6_DepthInvariant ==
    \A u \in Stored :
        /\ sitemap_data[u].depth <= DepthLimit
        /\ u = Seed => sitemap_data[u].depth = 0 /\ sitemap_data[u].parent = None
        /\ u # Seed =>
              /\ sitemap_data[u].parent \in Stored
              /\ sitemap_data[u].depth = sitemap_data[sitemap_data[u].parent].depth + 1

C8_TreeUrlsAreStoredUrls ==
    pc = "closed" =>
        /\ TreeWritten
        /\ Range(TreeUrls(tree)) = Stored

(***************************************************************************)
(* C9: a link whose URL ends, ignoring case, in an excluded extension is   *)
(* never requested and never a key of sitemap_data, and it is still in the *)
(* child_urls of every stored page that carries it.                        *)
(***************************************************************************)
C9_ExcludedNeverFollowed ==
    \A u \in Urls :
        EndsInExcludedExtension(u) =>
            /\ u \notin Stored
            /\ u \notin seen
            /\ \A r \in pending \cup inflight : r.url # u
            /\ visits[u] = 0
            /\ site[u] = Unknown
            /\ \A p \in Stored :
                  u \in Range(site[p].hrefs) => u \in Range(sitemap_data[p].child_urls)

\* a stored page lists a link with an upper-case excluded extension and
\* other links of the same page were followed
C9_Witness ==
    \E p \in Stored, u \in Urls :
        /\ EndsInExcludedExtension(u)
        /\ ~ \E ext \in skip_extensions : EndsWith(UrlText(u), ext)
        /\ u \in Range(sitemap_data[p].child_urls)
        /\ \E c \in Stored : sitemap_data[c].parent = p
        /\ pc = "closed"

(***************************************************************************)
(* C10: seed S links to P1 and P2, P1 links to S and C1, page-count limit  *)
(* 3.  The tree has root S, the children of S are P1 and P2, or P1 alone,  *)
(* P1 has no child S, and C1 is not in the tree.  (The order of the two    *)
(* children is not constrained here.)                                      *)
(***************************************************************************)
Html(hrefs) ==
    [kind |-> "response", status |-> 200, content_type |-> "text/html", hrefs |-> hrefs]

\* the site of the scenario, as far as the crawl has seen it
ScenarioSite ==
    /\ site["S"] \in {Unknown, Html(<<"P1", "P2">>)}
    /\ site["P1"] \in {Unknown, Html(<<"S", "C1">>)}
    /\ site["P2"] \in {Unknown, Html(<<>>)}
    /\ site["C1"] \in {Unknown, Html(<<>>)}

ChildUrlsOf(t) == [i \in 1..Len(t.children) |-> t.children[i].url]

C10_Scenario ==
    (pc = "closed" /\ PageCount = 3 /\ ScenarioSite /\ site["S"] # Unknown) =>
        /\ tree.tag = "node"
        /\ tree.url = "S"
        /\ ChildUrlsOf(tree) \in { <<"P1", "P2">>, <<"P2", "P1">>, <<"P1">> }
        /\ \A i \in 1..Len(tree.children) :
              "S" \notin Range(ChildUrlsOf(tree.children[i]))
        /\ "C1" \notin Range(TreeUrls(tree))

(***************************************************************************)
(* Helpers of the properties about the built tree                          *)
(***************************************************************************)
\* the nodes of a built tree, at every level
RECURSIVE TreeNodes(_)
TreeNodes(t) ==
    IF t.tag # "node" THEN {}
    ELSE {t} \cup UNION { TreeNodes(t.children[i]) : i \in 1..Len(t.children) }

\* closed() has run and build_tree returned a tree with a root
TreeBuilt == pc = "closed" /\ tree.tag = "node"

\* the sequence without the later occurrences of a repeated element
RECURSIVE Dedupe(_)
Dedupe(s) ==
    IF s = <<>> THEN <<>>
    ELSE LET front == Dedupe(SubSeq(s, 1, Len(s) - 1))
             last == s[Len(s)]
         IN  IF last \in Range(front) THEN front ELSE Append(front, last)

\* the links of the stored page p, in page order, that were fetched and
\* stored with p as their parent
FetchedLinks(p) ==
    Dedupe(SelectSeq(sitemap_data[p].child_urls,
                     LAMBDA c : c \in Stored /\ sitemap_data[c].parent = p))

(***************************************************************************)
(* C11: in the tree built at crawl completion, the stored parent of every  *)
(* child c of every tree node n is n.url.                                  *)
(***************************************************************************)
C11_ChildrenHaveRecordedParent ==
    TreeBuilt =>
        \A n \in TreeNodes(tree) :
            \A i \in 1..Len(n.children) :
                /\ n.children[i].parent = n.url
                /\ sitemap_data[n.children[i].url].parent = n.url

\* a tree of three levels was built: the root has a child that has a child
C11_Witness ==
    /\ TreeBuilt
    /\ \E i \in 1..Len(tree.children) : tree.children[i].children # <<>>

(***************************************************************************)
(* C12 as claimed: the children of every tree node are in the order their  *)
(* edges were recorded in parent_map, and that is the order of the         *)
(* children's links in the parent's child_urls, restricted to the links    *)
(* that were fetched.                                                      *)
(***************************************************************************)
C12_ChildrenInLinkOrder ==
    TreeBuilt =>
        \A n \in TreeNodes(tree) :
            /\ ChildUrlsOf(n) = ParentMapGet(n.url)
            /\ ChildUrlsOf(n) = FetchedLinks(n.url)

(***************************************************************************)
(* C12 as amended: the children of every tree node are in the order their  *)
(* edges were recorded in parent_map, which is the order in which the      *)
(* children's responses were parsed; they are the fetched links of the     *)
(* parent's child_urls, in an order that need not be the page order.       *)
(***************************************************************************)
C12_ChildrenInEdgeOrder ==
    TreeBuilt =>
        \A n \in TreeNodes(tree) :
            /\ ChildUrlsOf(n) = ParentMapGet(n.url)
            /\ Range(ChildUrlsOf(n)) = Range(FetchedLinks(n.url))
            /\ Len(ChildUrlsOf(n)) = Len(FetchedLinks(n.url))

\* a tree node has two children whose edges were recorded, and so are
\* emitted, in the reverse of the order of their links on the page
C12_Witness ==
    /\ TreeBuilt
    /\ \E n \in TreeNodes(tree) :
          /\ Len(n.children) = 2
          /\ ChildUrlsOf(n) = ParentMapGet(n.url)
          /\ ChildUrlsOf(n) = Reverse(FetchedLinks(n.url))

(***************************************************************************)
(* C13: build_tree(rootUrl) returns none exactly when rootUrl has no       *)
(* stored node, for every rootUrl and every store; the tree closed()       *)
(* builds from start_urls[0] is not none when the seed is stored.          *)
(***************************************************************************)
C13_NoneIffNotStored ==
    /\ \A u \in Urls : (build_tree(u, 0).tag = "None") <=> (u \notin Stored)
    /\ pc = "closed" => ((tree.tag = "None") <=> (Seed \notin Stored))

\* closed() built a tree from a store that holds the seed and a leaf page,
\* and a crawl whose seed was never stored ended with none
C13_Witness ==
    /\ pc = "closed"
    /\ \/ /\ tree.tag = "node"
          /\ \E u \in Stored : ParentMapGet(u) = <<>>
       \/ /\ tree.tag = "None"
          /\ site[Seed] # Unknown

(***************************************************************************)
(* C16: the edge relation is closed over the stored nodes: every key of    *)
(* parent_map and every URL of its children lists is a key of              *)
(* sitemap_data, every stored node with a parent is in the children list   *)
(* of that parent, and so build_tree drops no recorded child.              *)
(***************************************************************************)
C16_EdgesClosedOverStore ==
    /\ DOMAIN parent_map \subseteq Stored
    /\ \A p \in DOMAIN parent_map : Range(parent_map[p]) \subseteq Stored
    /\ \A u \in Stored :
          sitemap_data[u].parent # None =>
              /\ sitemap_data[u].parent \in DOMAIN parent_map
              /\ u \in Range(parent_map[sitemap_data[u].parent])
    /\ \A p \in DOMAIN parent_map :
          \A i \in 1..Len(parent_map[p]) : build_tree(parent_map[p][i], 1).tag # "None"

\* two pages are stored under the same parent and a third under one of them
C16_Witness ==
    /\ \E p \in DOMAIN parent_map : Len(parent_map[p]) = 2
    /\ \E p \in DOMAIN parent_map \ {Seed} : parent_map[p] # <<>>

C17_NodeIdsUnique ==
    /\ \A id \in DOMAIN node_files : Len(node_files[id]) = 1
    /\ DOMAIN node_files = 1..Cardinality(Stored)

(***************************************************************************)
(* C18: under fair scheduling the crawl eventually completes: closed() has *)
(* run, nothing is in flight, and from then on nothing is dispatched.      *)
(***************************************************************************)
C18_CrawlCompletes ==
    <>[](pc = "closed" /\ inflight = {})

\* a crawl of a cyclic link graph (the seed was fetched twice) completed with
\* the page limit reached and requests left in the queue
C18_Witness ==
    /\ pc = "closed"
    /\ visits[Seed] = 2
    /\ closing
    /\ pending # {}
    /\ inflight = {}

====
